---- MODULE Spec2Model ----
(***************************************************************************)
(* A model of SkDiffContext (tools/skpdiff/SkDiffContext.cpp): the record  *)
(* store, the single-pair comparison addDiff, the batch drivers            *)
(* diffDirectories and diffPatterns running addDiff on a thread pool, and  *)
(* the reports outputRecords and outputCsv.                                *)
(*                                                                         *)
(* Strings are sequences of one-character strings, so that prefixes,       *)
(* path joins and base names are computed, not assumed.                    *)
(***************************************************************************)
EXTENDS Integers, Sequences, FiniteSets, TLC

\* ------------------------------------------------------------------ bounds
\* Entries a directory listing or a glob expansion may hold.
MaxEntries == 2
\* Records the context may allocate over a run (caps the heap).
MaxRecords == 2
\* Length of a differ list handed to setDiffers.
MaxDiffers == 2
\* Cores of the machine: the pool width when fThreadCount is kThreadPerCore.
NumCores == 2
\* Length of the base filenames drawn for get_common_prefix.
MaxLen == 3
\* Direct addDiff calls of a caller that goes on to write its reports.
MaxCalls == 3

\* ------------------------------------------------------- program constants
NULL == 0
kThreadPerCore == -1
RESULT_CORRECT == 1
\* Line 21: the points of interest a DiffData contributes to the JSON output.
kMaxPOI == 100

\* ------------------------------------------------------------------ strings
Sep == "/"
Alphabet == {"a", "b"}

Min(m, n) == IF m < n THEN m ELSE n

\* All strings over Alphabet of length lo..hi.
Strings(lo, hi) == UNION {[1..n -> Alphabet] : n \in lo..hi}

\* SkString::endsWith(SkPATH_SEPARATOR)
EndsWithSep(s) == Len(s) > 0 /\ s[Len(s)] = Sep

\* SkOSPath::SkPathJoin(rootPath, relativePath): the root, a separator unless
\* the root already ends with one, then the relative path.
SkPathJoin(rootPath, relativePath) ==
    (IF EndsWithSep(rootPath) THEN rootPath ELSE Append(rootPath, Sep)) \o relativePath

\* Index of the last separator of a path, 0 when it has none (strrchr).
LastSep(fullPath) ==
    LET at == {i \in 1..Len(fullPath) : fullPath[i] = Sep}
    IN  IF at = {} THEN 0 ELSE CHOOSE i \in at : \A j \in at : j <= i

\* SkOSPath::SkBasename(fullPath): what follows the last separator.
SkBasename(fullPath) == SubSeq(fullPath, LastSep(fullPath) + 1, Len(fullPath))

\* The index (0-based, as in the code) at which a and b first differ within
\* their common length, or the common length when they do not.
FirstDiff(a, b) ==
    LET maxPrefixLength == Min(Len(a), Len(b))
        diff == {x \in 0..(maxPrefixLength - 1) : a[x + 1] # b[x + 1]}
    IN  IF diff = {} THEN maxPrefixLength
        ELSE CHOOSE x \in diff : \A y \in diff : x <= y

\* A slip in get_common_prefix: the final comparison inverted, so that the
\* longer of the two strings is returned when one is a prefix of the other.
get_common_prefix_longer(a, b) ==
    LET maxPrefixLength == Min(Len(a), Len(b))
        x == FirstDiff(a, b)
    IN  IF x < maxPrefixLength THEN SubSeq(a, 1, x)
        ELSE IF Len(a) > Len(b) THEN a ELSE b

\* A slip in get_common_prefix: the prefix cut one character short.
get_common_prefix_short(a, b) ==
    LET maxPrefixLength == Min(Len(a), Len(b))
        x == FirstDiff(a, b)
    IN  IF x < maxPrefixLength THEN SubSeq(a, 1, x - 1)
        ELSE IF Len(a) > Len(b) THEN b ELSE a

\* get_common_prefix(a, b): the loop returns the first x characters of a at
\* the first x with a[x] != b[x]; without such an x, the shorter string
\* (a when the lengths are equal).
get_common_prefix(a, b) ==
    LET maxPrefixLength == Min(Len(a), Len(b))
        x == FirstDiff(a, b)
    IN  IF x < maxPrefixLength THEN SubSeq(a, 1, x)
        ELSE IF Len(a) > Len(b) THEN b ELSE a

\* ------------------------------------------------------------ environment
\* The differs the caller owns (SkImageDiffer instances): getName() and the
\* answer of enablePOIAlphaMask().
Differs ==
    << [name |-> "A", mask |-> TRUE],
       [name |-> "C", mask |-> FALSE],
       [name |-> "B", mask |-> TRUE] >>

\* Strictly increasing index lists of length at most n over 1..m.
Increasing(m, n) ==
    {s \in UNION {[1..k -> 1..m] : k \in 0..Min(m, n)} :
        \A i \in 1..(Len(s) - 1) : s[i] < s[i + 1]}

\* The arrays handed to setDiffers.
DifferLists == {[i \in 1..Len(s) |-> Differs[s[i]]] : s \in Increasing(Len(Differs), MaxDiffers)}

\* File names on disk, in the order get_directory / glob_files list them.
NameList == << <<"a">>, <<"a", "b">> >>

\* Listings of a directory, or expansions of a glob: sorted, without repeats.
EntryLists == {[i \in 1..Len(s) |-> NameList[s[i]]] : s \in Increasing(Len(NameList), MaxEntries)}

BaselineDir == <<"p">>
TestDir == <<"q">>
OutDirs == {<<>>, <<"o">>}

\* What a path under the test directory is: sk_exists is false for
\* "missing", sk_isdir true for "dir".
Kinds == {"file", "dir", "missing"}
sk_exists(kind) == kind # "missing"
sk_isdir(kind) == kind = "dir"

\* queueDiff's handle and getResult's value, as far as addDiff tells them apart.
DiffIDs == {-1, 0}
Results == {RESULT_CORRECT, 0}

\* getPointsOfInterestCount's value: where the points play no part, one
\* point; for the reports, counts on both sides of kMaxPOI.
OnePoint == {1}
PoiCounts == {0, 2, kMaxPOI, kMaxPOI + 1}

\* ------------------------------------------------------------------ state
VARIABLES
    fRecords,        \* head of the record list (a record id, or NULL)
    records,         \* the heap of DiffRecords: records[id]
    fDiffers,        \* the differ array; fDifferCount is its length
    fDifferenceDir,  \* the artifact directory, <<>> when none
    fThreadCount,    \* the configured pool width
    pc,              \* where the caller's thread is
    call,            \* the frame of the caller's call: its listings, the head it found
    tasks,           \* tasks[0]: the caller's own addDiff; tasks[x]: runnableDiffs[x-1]
    stream,          \* what outputRecords and outputCsv wrote to the caller's streams
    mkdirFailed,     \* sk_mkdir failed in the caller's last setDifferenceDir call
    lastDiffers      \* the list the caller passed to its last setDiffers call

vars == <<fRecords, records, fDiffers, fDifferenceDir, fThreadCount, pc, call, tasks,
          stream, mkdirFailed, lastDiffers>>

fDifferCount == Len(fDiffers)

Threads == 0..MaxEntries
Pool == 1..MaxEntries

NoTask ==
    [pc |-> "none", fBaselinePath |-> <<>>, fTestPath |-> <<>>,
     baselineBitmap |-> FALSE, testBitmap |-> FALSE,
     newRecord |-> NULL, differIndex |-> 0,
     alphaMaskPending |-> FALSE, alphaMaskCreated |-> FALSE, calls |-> <<>>]

\* SkThreadedDiff::setup followed by SkThreadPool::add: a queued runnable.
Runnable(baselinePath, testPath) ==
    [NoTask EXCEPT !.pc = "queued", !.fBaselinePath = baselinePath, !.fTestPath = testPath]

\* The caller's two streams (one for outputRecords, one for outputCsv),
\* nothing written yet.
NoStream == [json |-> <<>>, csv |-> <<>>]

NoCall ==
    [op |-> "none", ok |-> TRUE, baselineEntries |-> <<>>, testEntries |-> <<>>,
     kinds |-> <<>>, before |-> NULL]

\* The records reachable from p through fNext, head first.
RECURSIVE Walk(_)
Walk(p) == IF p = NULL THEN <<>> ELSE <<p>> \o Walk(records[p].fNext)

\* The record store as outputRecords and outputCsv traverse it.
StoreSeq == Walk(fRecords)

Range(s) == {s[i] : i \in 1..Len(s)}

\* SkThreadPool(fThreadCount): one thread per core for kThreadPerCore.
Width == IF fThreadCount = kThreadPerCore THEN NumCores ELSE fThreadCount

Running(t) == tasks[t].pc \in {"link", "name", "loop"}

\* A slip in the count of finished runnables: an entry of runnableDiffs that
\* was never added to the pool is waited for as well.
FinishedIfRun(t) == tasks[t].pc = "done"

\* The runnable of entry t has nothing left to run: run() returned (line
\* 169), or the entry was not added to the pool.
Finished(t) == tasks[t].pc \in {"none", "done"}

\* SkThreadPool::wait(): every runnable added to the pool has run.
PoolDrained == \A t \in Pool : Finished(t)

\* SkDiffContext::SkDiffContext()
Init ==
    /\ fRecords = NULL
    /\ records = <<>>
    /\ fDiffers = <<>>
    /\ fDifferenceDir = <<>>
    /\ fThreadCount = kThreadPerCore
    /\ pc = "idle"
    /\ call = NoCall
    /\ tasks = [t \in Threads |-> NoTask]
    /\ stream = NoStream
    /\ mkdirFailed = FALSE
    /\ lastDiffers = <<>>

\* ---------------------------------------------------------- configuration
\* The caller configures the context before its first comparison; the
\* configuration calls touch no record and the comparisons no configuration.
Configuring == records = <<>>

\* setDifferenceDir(path): the directory is kept only when sk_mkdir made it.
SetDifferenceDir(path, made) ==
    /\ pc = "idle"
    /\ Configuring
    /\ fDifferenceDir' = IF path # <<>> /\ made THEN path ELSE fDifferenceDir
    /\ mkdirFailed' = (path # <<>> /\ ~made)
    /\ UNCHANGED <<stream, lastDiffers, fRecords, records, fDiffers, fThreadCount, pc, call, tasks>>

\* A slip in lines 52-61: the old array is kept and the new list copied
\* behind it.
NewDifferArrayAppended(oldDiffers, differs) == oldDiffers \o differs

\* Lines 52-61: the old array is deleted, fDifferCount becomes
\* differs.count() and the new array holds differs[0..count-1].
NewDifferArray(oldDiffers, differs) == differs

\* setDiffers(differs), called by the caller's thread between two runs.
SetDiffersBetweenRuns(differs) ==
    /\ pc = "idle"
    /\ fDiffers' = NewDifferArray(fDiffers, differs)
    /\ lastDiffers' = differs
    /\ UNCHANGED <<stream, mkdirFailed, fRecords, records, fDifferenceDir, fThreadCount, pc, call, tasks>>

\* setDiffers(differs) while the context is being configured.
SetDiffers(differs) ==
    /\ Configuring
    /\ SetDiffersBetweenRuns(differs)

\* setThreadCount(threadCount)
SetThreadCount(threadCount) ==
    /\ pc = "idle"
    /\ Configuring
    /\ fThreadCount' = threadCount
    /\ UNCHANGED <<stream, mkdirFailed, lastDiffers, fRecords, records, fDiffers, fDifferenceDir, pc, call, tasks>>

\* ----------------------------------------------------------------- addDiff
\* A slip in the load check: only the baseline's decode result is tested.
DecodeFailedBaselineOnly(baselineOK, testOK) == ~baselineOK

\* Lines 85-92: addDiff returns when either DecodeFile fails.
DecodeFailed(baselineOK, testOK) == ~baselineOK \/ ~testOK

\* A slip in line 98: the new record is not chained to the old head.
NewDiffRecordUnchained(baselinePath, testPath) ==
    [fBaselinePath |-> baselinePath, fTestPath |-> testPath, fNext |-> NULL,
     fCommonName |-> <<>>, fDifferencePath |-> <<>>, fDiffs |-> <<>>]

\* SkNEW(DiffRecord) with lines 96-98: the paths, and fNext read from fRecords.
NewDiffRecord(baselinePath, testPath) ==
    [fBaselinePath |-> baselinePath, fTestPath |-> testPath, fNext |-> fRecords,
     fCommonName |-> <<>>, fDifferencePath |-> <<>>, fDiffs |-> <<>>]

\* The caller runs its comparisons before it writes its reports.
Reporting == stream # NoStream

\* The caller calls addDiff(baselinePath, testPath) itself, while the
\* context has allocated fewer than cap records.
AddDiffWithin(cap, baselinePath, testPath) ==
    /\ pc = "idle"
    /\ ~Reporting
    /\ Len(records) < cap
    /\ pc' = "addDiff"
    /\ call' = [NoCall EXCEPT !.op = "addDiff", !.before = fRecords]
    /\ tasks' = [tasks EXCEPT ![0] = [Runnable(baselinePath, testPath) EXCEPT !.pc = "start"]]
    /\ UNCHANGED <<stream, mkdirFailed, lastDiffers, fRecords, records, fDiffers, fDifferenceDir, fThreadCount>>

AddDiff(baselinePath, testPath) == AddDiffWithin(MaxRecords, baselinePath, testPath)

\* A pool thread takes a queued runnable when one of its Width threads is free.
CanStart(t) ==
    \/ t = 0 /\ tasks[t].pc = "start"
    \/ t \in Pool /\ tasks[t].pc = "queued"
                  /\ Cardinality({u \in Pool : Running(u)}) < Width

\* Lines 83-98: both images are decoded; on success the record is allocated,
\* its paths are set and its fNext is read from the head fRecords.
AddDiffDecode(t, baselineOK, testOK) ==
    /\ CanStart(t)
    /\ baselineOK \/ testOK
    /\ IF DecodeFailed(baselineOK, testOK)
       THEN /\ tasks' = [tasks EXCEPT ![t].pc = "done",
                                      ![t].baselineBitmap = baselineOK,
                                      ![t].testBitmap = baselineOK /\ testOK]
            /\ UNCHANGED records
       ELSE /\ records' = Append(records,
                             NewDiffRecord(tasks[t].fBaselinePath, tasks[t].fTestPath))
            /\ tasks' = [tasks EXCEPT ![t].pc = "link",
                                      ![t].baselineBitmap = baselineOK,
                                      ![t].testBitmap = testOK,
                                      ![t].newRecord = Len(records) + 1]
    /\ UNCHANGED <<stream, mkdirFailed, lastDiffers, fRecords, fDiffers, fDifferenceDir, fThreadCount, pc, call>>

\* Line 99: fRecords = newRecord. No lock is held between the read of the
\* head (line 98) and this write.
AddDiffLink(t) ==
    /\ tasks[t].pc = "link"
    /\ fRecords' = tasks[t].newRecord
    /\ tasks' = [tasks EXCEPT ![t].pc = "name"]
    /\ UNCHANGED <<stream, mkdirFailed, lastDiffers, records, fDiffers, fDifferenceDir, fThreadCount, pc, call>>

\* Line 110: the loop condition.
LoopPc(differIndex) == IF differIndex < fDifferCount THEN "loop" ELSE "done"

\* Lines 102-107: the common name, and the two alpha-mask flags.
AddDiffName(t) ==
    /\ tasks[t].pc = "name"
    /\ records' = [records EXCEPT ![tasks[t].newRecord].fCommonName =
                      get_common_prefix(SkBasename(tasks[t].fBaselinePath),
                                        SkBasename(tasks[t].fTestPath))]
    /\ tasks' = [tasks EXCEPT ![t].pc = LoopPc(0),
                              ![t].differIndex = 0,
                              ![t].alphaMaskPending = FALSE,
                              ![t].alphaMaskCreated = FALSE]
    /\ UNCHANGED <<stream, mkdirFailed, lastDiffers, fRecords, fDiffers, fDifferenceDir, fThreadCount, pc, call>>

\* A slip in line 111: the first differ is used in every iteration.
DifferAtFirst(differIndex) == fDiffers[1]

\* Line 111: SkImageDiffer* differ = fDiffers[differIndex].
DifferAt(differIndex) == fDiffers[differIndex + 1]

\* A slip in line 113: alphaMaskCreated is not looked at.
AsksAlphaMaskAlways(alphaMaskCreated) == fDifferenceDir # <<>>

\* Line 113: the differ is asked for the alpha mask.
AsksAlphaMask(alphaMaskCreated) == ~alphaMaskCreated /\ fDifferenceDir # <<>>

\* A slip in lines 129-131: the result is not compared with RESULT_CORRECT.
WritesAlphaMaskAnyResult(alphaMaskPending, result, differencePath) ==
    alphaMaskPending /\ differencePath = <<>>

\* Lines 129-131: the alpha mask is written.
WritesAlphaMask(alphaMaskPending, result, differencePath) ==
    alphaMaskPending /\ RESULT_CORRECT # result /\ differencePath = <<>>

\* A slip in lines 143-146: alphaMaskCreated is never set.
CreatedAfterNever(alphaMaskPending, alphaMaskCreated) == alphaMaskCreated

\* Lines 143-146: alphaMaskCreated after a diff that had the mask pending.
CreatedAfter(alphaMaskPending, alphaMaskCreated) == alphaMaskPending \/ alphaMaskCreated

Ev(op, differIndex) == [op |-> op, differ |-> differIndex]

\* Line 116: the call of queueDiff on differ differIndex, with the handle
\* it returned.
QueueEv(differIndex, diffID) ==
    [op |-> "queueDiff", differ |-> differIndex, handle |-> diffID]

\* Line 125: the call of getPointsOfInterestCount on differ differIndex,
\* with the count it returned.
CountEv(differIndex, poiCount) ==
    [op |-> "getPointsOfInterestCount", differ |-> differIndex, count |-> poiCount]

\* Lines 125-126: the array getPointsOfInterest returns for a comparison
\* with poiCount points of interest, as (x, y) pairs.
Points(poiCount) == [k \in 1..poiCount |-> <<k - 1, poiCount - k>>]

\* Line 127: fPointsOfInterest.append(poiCount, poi) on the new DiffData.
Collected(poiCount, poi) == SubSeq(poi, 1, poiCount)

\* A slip in lines 117/150: the handle is released whatever its sign.
ReleasesAnyHandle(diffID) == TRUE

\* Lines 117 and 150: deleteDiff(diffID) is inside if (diffID >= 0).
Releases(diffID) == diffID >= 0

\* A slip in lines 117-152: a negative handle leaves the loop.
AfterDeclinedBreak(differIndex) == "done"

\* Lines 110 and 117: after a negative handle the loop goes on to its next
\* iteration.
AfterDeclined(differIndex) == LoopPc(differIndex + 1)

\* Lines 111-151: one iteration of the differ loop, for a queueDiff that
\* returns diffID, a getResult that returns result and poiCount points of
\* interest.
AddDiffDiffer(t, diffID, result, poiCount) ==
    LET T == tasks[t]
        r == T.newRecord
        i == T.differIndex
        differ == DifferAt(i)
        asks == AsksAlphaMask(T.alphaMaskCreated)
        pending == IF asks THEN differ.mask ELSE T.alphaMaskPending
        writes == WritesAlphaMask(pending, result, records[r].fDifferencePath)
        diffData == [fDiffName |-> differ.name, fResult |-> result,
                     fPointsOfInterest |-> Collected(poiCount, Points(poiCount))]
        log == (IF asks THEN <<Ev("enablePOIAlphaMask", i)>> ELSE <<>>)
               \o <<QueueEv(i, diffID)>>
               \o (IF diffID >= 0
                   THEN <<Ev("getName", i), Ev("getResult", i),
                          CountEv(i, poiCount), Ev("getPointsOfInterest", i)>>
                        \o (IF writes
                            THEN <<Ev("getPointsOfInterestAlphaMask", i), Ev("EncodeFile", i)>>
                            ELSE <<>>)
                   ELSE <<>>)
               \o (IF Releases(diffID) THEN <<Ev("deleteDiff", i)>> ELSE <<>>)
    IN  /\ T.pc = "loop"
        /\ diffID < 0 => result = RESULT_CORRECT
        /\ IF diffID >= 0
           THEN /\ records' = [records EXCEPT
                      ![r].fDiffs = Append(@, diffData),
                      ![r].fDifferencePath =
                          IF writes THEN SkPathJoin(fDifferenceDir, records[r].fCommonName)
                          ELSE @]
                /\ tasks' = [tasks EXCEPT
                      ![t].pc = LoopPc(i + 1),
                      ![t].differIndex = i + 1,
                      ![t].alphaMaskPending = IF pending THEN FALSE ELSE pending,
                      ![t].alphaMaskCreated = CreatedAfter(pending, T.alphaMaskCreated),
                      ![t].calls = @ \o log]
           ELSE /\ UNCHANGED records
                /\ tasks' = [tasks EXCEPT
                      ![t].pc = AfterDeclined(i),
                      ![t].differIndex = i + 1,
                      ![t].alphaMaskPending = pending,
                      ![t].calls = @ \o log]
        /\ UNCHANGED <<stream, mkdirFailed, lastDiffers, fRecords, fDiffers, fDifferenceDir, fThreadCount, pc, call>>

\* Line 155: addDiff returns to the caller that called it directly.
AddDiffReturn ==
    /\ pc = "addDiff"
    /\ tasks[0].pc = "done"
    /\ pc' = "idle"
    /\ call' = NoCall
    /\ tasks' = [tasks EXCEPT ![0] = NoTask]
    /\ UNCHANGED <<stream, mkdirFailed, lastDiffers, fRecords, records, fDiffers, fDifferenceDir, fThreadCount>>

\* ----------------------------------------------------------- batch drivers
\* A slip in line 197: the test path is only checked to exist.
ShouldQueueAnyPath(kind) == sk_exists(kind)

\* Line 197: the test file exists and is not a directory.
ShouldQueue(kind) == sk_exists(kind) /\ ~sk_isdir(kind)

\* A slip in lines 180, 215, 221: the result of the listing is not tested.
ListingFailedNever(ok) == FALSE

\* Lines 180, 215, 221: !get_directory(...), !glob_files(...).
ListingFailed(ok) == ~ok

\* The frame of a diffDirectories call: the listing of the baseline
\* directory (ok is get_directory's result) and, for entry x, what the path
\* of that name under the test directory is.
DirectoriesCall(ok, entries, kinds) ==
    [NoCall EXCEPT !.op = "diffDirectories", !.ok = ok, !.baselineEntries = entries,
                   !.kinds = kinds, !.before = fRecords]

\* Lines 177-204: diffDirectories lists the baseline directory; without a
\* listing it goes to its return statement (line 182); otherwise every
\* entry with a regular test file is set up and added to the pool, and the
\* caller goes on to wait.
DiffDirectories(ok, entries, kinds) ==
    /\ pc = "idle"
    /\ ~ok => entries = <<>>
    /\ Len(records) + Len(entries) <= MaxRecords
    /\ call' = DirectoriesCall(ok, entries, kinds)
    /\ IF ListingFailed(ok)
       THEN pc' = "return" /\ UNCHANGED tasks
       ELSE /\ pc' = "wait"
            /\ tasks' = [t \in Threads |->
                  IF t \in 1..Len(entries) /\ ShouldQueue(kinds[t])
                  THEN Runnable(SkPathJoin(BaselineDir, entries[t]),
                                SkPathJoin(TestDir, entries[t]))
                  ELSE NoTask]
    /\ UNCHANGED <<stream, mkdirFailed, lastDiffers, fRecords, records, fDiffers, fDifferenceDir, fThreadCount>>

\* A slip in lines 206/240: the call returns without threadPool.wait().
ReturnsWithoutWait == TRUE

\* Lines 206/240: threadPool.wait() lets the call go on to its return.
ReturnsAfterWait == PoolDrained

\* Lines 206-207: threadPool.wait(), then diffDirectories returns and its
\* runnables are destroyed.
DiffDirectoriesReturn ==
    /\ pc = "wait"
    /\ call.op = "diffDirectories"
    /\ ReturnsAfterWait
    /\ pc' = "idle"
    /\ call' = NoCall
    /\ tasks' = [t \in Threads |-> NoTask]
    /\ UNCHANGED <<stream, mkdirFailed, lastDiffers, fRecords, records, fDiffers, fDifferenceDir, fThreadCount>>

\* A slip in lines 226-229: the two counts are not compared.
CountsDifferNever(baselineEntries, testEntries) == FALSE

\* Line 226: baselineEntries.count() != testEntries.count().
CountsDiffer(baselineEntries, testEntries) == Len(baselineEntries) # Len(testEntries)

\* A slip in line 236: every baseline entry is paired with the first test
\* entry.
PairedTestFirst(testEntries, x) == testEntries[1]

\* Line 236: baseline entry x is paired with testEntries[x].
PairedTest(testEntries, x) == testEntries[x]

\* The frame of a diffPatterns call: the two expansions (ok when both
\* glob_files calls succeeded), as the paths the globs yield.
PatternsCall(baselineOK, baselineEntries, testOK, testEntries) ==
    [NoCall EXCEPT
        !.op = "diffPatterns", !.ok = baselineOK /\ testOK, !.before = fRecords,
        !.baselineEntries = [x \in 1..Len(baselineEntries) |->
                                SkPathJoin(BaselineDir, baselineEntries[x])],
        !.testEntries = [x \in 1..Len(testEntries) |->
                            SkPathJoin(TestDir, testEntries[x])]]

\* Lines 210-238: diffPatterns expands the two globs; without both
\* expansions, or with different counts, it goes to its return statement
\* (lines 217, 223, 228); otherwise entry x of one list is paired with
\* entry x of the other and added to the pool, and the caller goes on to
\* wait.
DiffPatterns(baselineOK, baselineEntries, testOK, testEntries) ==
    LET frame == PatternsCall(baselineOK, baselineEntries, testOK, testEntries) IN
    /\ pc = "idle"
    /\ ~baselineOK => baselineEntries = <<>> /\ testOK /\ testEntries = <<>>
    /\ ~testOK => testEntries = <<>>
    /\ Len(baselineEntries) = Len(testEntries)
          => Len(records) + Len(baselineEntries) <= MaxRecords
    /\ call' = frame
    /\ IF ListingFailed(frame.ok) \/ CountsDiffer(frame.baselineEntries, frame.testEntries)
       THEN pc' = "return" /\ UNCHANGED tasks
       ELSE /\ pc' = "wait"
            /\ tasks' = [t \in Threads |->
                  IF t \in 1..Len(frame.baselineEntries)
                  THEN Runnable(frame.baselineEntries[t],
                                IF t <= Len(frame.testEntries)
                                THEN PairedTest(frame.testEntries, t) ELSE <<>>)
                  ELSE NoTask]
    /\ UNCHANGED <<stream, mkdirFailed, lastDiffers, fRecords, records, fDiffers, fDifferenceDir, fThreadCount>>

\* Lines 240-241: threadPool.wait(), then diffPatterns returns.
DiffPatternsReturn ==
    /\ pc = "wait"
    /\ call.op = "diffPatterns"
    /\ ReturnsAfterWait
    /\ pc' = "idle"
    /\ call' = NoCall
    /\ tasks' = [t \in Threads |-> NoTask]
    /\ UNCHANGED <<stream, mkdirFailed, lastDiffers, fRecords, records, fDiffers, fDifferenceDir, fThreadCount>>

\* Lines 182, 217, 223, 228: the return statement of a batch call that
\* queued nothing.
EarlyReturn ==
    /\ pc = "return"
    /\ pc' = "idle"
    /\ call' = NoCall
    /\ UNCHANGED <<stream, mkdirFailed, lastDiffers, fRecords, records, fDiffers, fDifferenceDir, fThreadCount, tasks>>

\* ----------------------------------------------------------------- reports
\* The text of a stream is the sequence of the strings written to it: a
\* literal is one string, an SkString (a path, a name) its characters.

\* The concatenation of a sequence of sequences.
RECURSIVE Cat(_)
Cat(ss) ==
    IF Len(ss) = 0 THEN <<>>
    ELSE IF Len(ss) = 1 THEN ss[1]
    ELSE LET half == Len(ss) \div 2
         IN  Cat(SubSeq(ss, 1, half)) \o Cat(SubSeq(ss, half + 1, Len(ss)))

Digits == <<"0", "1", "2", "3", "4", "5", "6", "7", "8", "9">>

\* SkWStream::writeDecAsText(value): the decimal digits of value.
RECURSIVE DecAsText(_)
DecAsText(value) ==
    IF value < 0 THEN <<"-">> \o DecAsText(-value)
    ELSE IF value < 10 THEN <<Digits[value + 1]>>
    ELSE DecAsText(value \div 10) \o <<Digits[(value % 10) + 1]>>

\* SkWStream::writeScalarAsText(value), for the whole numbers the results
\* of the model are: no fraction is written.
ScalarAsText(value) == DecAsText(value)

\* Line 382: printf("%f") of a whole number: six zeros after the point.
FloatText(value) == DecAsText(value) \o <<".", "0", "0", "0", "0", "0", "0">>

\* The directory get_absolute_path resolves relative paths against.
Cwd == <<Sep, "w">>

\* get_absolute_path(path): the empty path stays empty, a relative path is
\* resolved against the working directory.
get_absolute_path(path) ==
    IF path = <<>> THEN <<>>
    ELSE IF path[1] = Sep THEN path
    ELSE SkPathJoin(Cwd, path)

\* A slip in lines 288-289: the loop is bounded by the count only.
EmittedCountUncapped(count) == count

\* Lines 288-289: poiIndex < data.fPointsOfInterest.count() && poiIndex < kMaxPOI.
EmittedCount(count) == Min(count, kMaxPOI)

\* A slip in lines 298-299: the comma is decided by the count only.
MorePointsUncapped(count, poiIndex) == poiIndex + 1 < count

\* Lines 298-299: another point follows point poiIndex in the report.
MorePoints(count, poiIndex) == poiIndex + 1 < count /\ poiIndex + 1 < kMaxPOI

\* Lines 290-302: one point of interest, with a comma unless it is the last
\* one emitted.
PoiText(fPointsOfInterest, poiIndex) ==
    <<"                        [">> \o DecAsText(fPointsOfInterest[poiIndex + 1][1])
    \o <<",">> \o DecAsText(fPointsOfInterest[poiIndex + 1][2]) \o <<"]">>
    \o (IF MorePoints(Len(fPointsOfInterest), poiIndex) THEN <<",">> ELSE <<>>)
    \o <<"\n">>

\* Lines 275-312: one DiffData of a record.
DiffText(fDiffs, diffIndex) ==
    LET data == fDiffs[diffIndex + 1] IN
    <<"                {\n">>
    \o <<"                    \"differName\": \"", data.fDiffName, "\",\n">>
    \o <<"                    \"result\": ">> \o ScalarAsText(data.fResult) \o <<",\n">>
    \o <<"                    \"pointsOfInterest\": [\n">>
    \o Cat([k \in 1..EmittedCount(Len(data.fPointsOfInterest)) |->
               PoiText(data.fPointsOfInterest, k - 1)])
    \o <<"                    ]\n">>
    \o <<"                }">>
    \o (IF diffIndex + 1 < Len(fDiffs) THEN <<",">> ELSE <<>>)
    \o <<"                \n">>

\* Lines 252-323: one record of the list.
RecordText(currentRecord) ==
    LET R == records[currentRecord] IN
    <<"        {\n">>
    \o <<"            \"commonName\": \"">> \o R.fCommonName \o <<"\",\n">>
    \o <<"            \"differencePath\": \"">>
    \o get_absolute_path(R.fDifferencePath) \o <<"\",\n">>
    \o <<"            \"baselinePath\": \"">>
    \o get_absolute_path(R.fBaselinePath) \o <<"\",\n">>
    \o <<"            \"testPath\": \"">>
    \o get_absolute_path(R.fTestPath) \o <<"\",\n">>
    \o <<"            \"diffs\": [\n">>
    \o Cat([k \in 1..Len(R.fDiffs) |-> DiffText(R.fDiffs, k - 1)])
    \o <<"            ]\n">>
    \o <<"        }">>
    \o (IF NULL # R.fNext THEN <<",">> ELSE <<>>)
    \o <<"\n">>

\* Lines 243-330: what outputRecords(stream, useJSONP) writes for the list
\* that starts at currentRecord.
RecordsText(currentRecord, useJSONP) ==
    LET list == Walk(currentRecord) IN
    (IF useJSONP THEN <<"var SkPDiffRecords = {\n">> ELSE <<"{\n">>)
    \o <<"    \"records\": [\n">>
    \o Cat([k \in 1..Len(list) |-> RecordText(list[k])])
    \o <<"    ]\n">>
    \o (IF useJSONP THEN <<"};\n">> ELSE <<"}\n">>)

\* A slip in lines 244 and 322: the list is walked with fRecords itself,
\* which ends at NULL.
HeadAfterWalkingHead(head) == NULL

\* Lines 244 and 338: the lists are walked with the local currentRecord;
\* fRecords keeps its value.
HeadAfterWalk(head) == head

\* outputRecords(stream, useJSONP)
OutputRecords(useJSONP) ==
    /\ pc = "idle"
    /\ stream' = [stream EXCEPT !.json = RecordsText(fRecords, useJSONP)]
    /\ fRecords' = HeadAfterWalk(fRecords)
    /\ UNCHANGED <<mkdirFailed, lastDiffers, records, fDiffers, fDifferenceDir, fThreadCount, pc, call, tasks>>

\* A slip in line 344: the dictionary is not asked, every name is a column.
IsNewColumnAlways(columns, fDiffName) == TRUE

\* Line 344: !columns.find(data.fDiffName).
IsNewColumn(columns, fDiffName) == \A i \in 1..Len(columns) : columns[i] # fDiffName

\* Lines 342-350: the diffs of one record are added to the columns found
\* so far (columns[i + 1] is the name set to index i).
RECURSIVE ColumnsOfDiffs(_, _)
ColumnsOfDiffs(columns, fDiffs) ==
    IF fDiffs = <<>> THEN columns
    ELSE ColumnsOfDiffs(IF IsNewColumn(columns, Head(fDiffs).fDiffName)
                        THEN Append(columns, Head(fDiffs).fDiffName)
                        ELSE columns,
                        Tail(fDiffs))

\* Lines 341-352: the first loop over the list.
RECURSIVE Columns(_, _)
Columns(columns, currentRecord) ==
    IF currentRecord = NULL THEN columns
    ELSE Columns(ColumnsOfDiffs(columns, records[currentRecord].fDiffs),
                 records[currentRecord].fNext)

\* columns.find(name, &index): the index the name was set to.
Find(columns, fDiffName) == (CHOOSE i \in 1..Len(columns) : columns[i] = fDiffName) - 1

\* A slip in lines 360-362: the values of the previous row are kept.
RowStartKept(values, cntColumns) == values

\* Lines 360-362: every column of the row starts as -1.
RowStart(values, cntColumns) == [i \in 1..cntColumns |-> -1]

\* Lines 364-370: the results of the record's diffs are stored at the
\* indices of their names.
RECURSIVE RowValues(_, _, _)
RowValues(values, columns, fDiffs) ==
    IF fDiffs = <<>> THEN values
    ELSE RowValues([values EXCEPT ![Find(columns, Head(fDiffs).fDiffName) + 1] =
                        Head(fDiffs).fResult],
                   columns, Tail(fDiffs))

\* Lines 372-376: filename starts at the last character of the path and
\* moves back while the character before it is not a separator.
RECURSIVE FilenameStart(_, _)
FilenameStart(path, filename) ==
    IF filename > 1 /\ path[filename - 1] # Sep
    THEN FilenameStart(path, filename - 1)
    ELSE filename

CsvFilename(path) == SubSeq(path, FilenameStart(path, Len(path)), Len(path))

\* Lines 358-388: the second loop over the list: one row per record, the
\* array values being the one array of line 355.
RECURSIVE RowsText(_, _, _)
RowsText(values, columns, currentRecord) ==
    IF currentRecord = NULL THEN <<>>
    ELSE LET R == records[currentRecord]
             row == RowValues(RowStart(values, Len(columns)), columns, R.fDiffs)
         IN  CsvFilename(R.fBaselinePath)
             \o Cat([i \in 1..Len(columns) |-> <<", ">> \o FloatText(row[i])])
             \o <<"\n">>
             \o RowsText(row, columns, R.fNext)

\* Lines 332-389: what outputCsv(stream) writes for the list at head.
CsvText(head) ==
    LET columns == Columns(<<>>, head) IN
    <<"key">>
    \o Cat([i \in 1..Len(columns) |-> <<", ", columns[i]>>])
    \o <<"\n">>
    \o RowsText([i \in 1..Len(columns) |-> 0], columns, head)

\* outputCsv(stream)
OutputCsv ==
    /\ pc = "idle"
    /\ stream' = [stream EXCEPT !.csv = CsvText(fRecords)]
    /\ fRecords' = HeadAfterWalk(fRecords)
    /\ UNCHANGED <<mkdirFailed, lastDiffers, records, fDiffers, fDifferenceDir, fThreadCount, pc, call, tasks>>

\* ---------------------------------------------------------- specification
Next ==
    \/ \E path \in OutDirs, made \in BOOLEAN : SetDifferenceDir(path, made)
    \/ \E differs \in DifferLists : SetDiffers(differs)
    \/ \E threadCount \in 1..(NumCores - 1) : SetThreadCount(threadCount)
    \/ \E b, c \in Range(NameList) :
          AddDiff(SkPathJoin(BaselineDir, b), SkPathJoin(TestDir, c))
    \/ \E t \in Threads, baselineOK, testOK \in BOOLEAN : AddDiffDecode(t, baselineOK, testOK)
    \/ \E t \in Threads : AddDiffLink(t)
    \/ \E t \in Threads : AddDiffName(t)
    \/ \E t \in Threads, diffID \in DiffIDs, result \in Results, poiCount \in OnePoint :
          AddDiffDiffer(t, diffID, result, poiCount)
    \/ AddDiffReturn
    \/ \E ok \in BOOLEAN, entries \in EntryLists :
          \E kinds \in [1..Len(entries) -> Kinds] : DiffDirectories(ok, entries, kinds)
    \/ DiffDirectoriesReturn
    \/ \E baselineOK, testOK \in BOOLEAN, baselineEntries, testEntries \in EntryLists :
          DiffPatterns(baselineOK, baselineEntries, testOK, testEntries)
    \/ DiffPatternsReturn
    \/ EarlyReturn

Spec == Init /\ [][Next]_vars

\* A single addDiff call of the caller on two base filenames drawn from all
\* the strings over Alphabet of length 1..MaxLen, on a fresh context.
InitPrefix ==
    /\ fRecords = NULL
    /\ records = <<>>
    /\ fDiffers = <<>>
    /\ fDifferenceDir = <<>>
    /\ fThreadCount = kThreadPerCore
    /\ pc = "addDiff"
    /\ call = [NoCall EXCEPT !.op = "addDiff"]
    /\ stream = NoStream
    /\ mkdirFailed = FALSE
    /\ lastDiffers = <<>>
    /\ \E a, b \in Strings(1, MaxLen) :
          tasks = [t \in Threads |->
                      IF t = 0
                      THEN [Runnable(SkPathJoin(BaselineDir, a), SkPathJoin(TestDir, b))
                               EXCEPT !.pc = "start"]
                      ELSE NoTask]

NextPrefix ==
    \/ \E baselineOK, testOK \in BOOLEAN : AddDiffDecode(0, baselineOK, testOK)
    \/ AddDiffLink(0)
    \/ AddDiffName(0)
    \/ AddDiffReturn

SpecPrefix == InitPrefix /\ [][NextPrefix]_vars

\* A caller that configures the context (with the first differs of Differs),
\* calls addDiff itself on up to MaxCalls pairs of files of the same name,
\* and then writes its reports.
NextReport ==
    \/ \E path \in OutDirs \ {<<>>} : SetDifferenceDir(path, TRUE)
    \/ \E n \in 0..MaxDiffers : SetDiffers(SubSeq(Differs, 1, n))
    \/ \E b \in Range(NameList) :
          AddDiffWithin(MaxCalls, SkPathJoin(BaselineDir, b), SkPathJoin(TestDir, b))
    \/ \E baselineOK, testOK \in BOOLEAN : AddDiffDecode(0, baselineOK, testOK)
    \/ AddDiffLink(0)
    \/ AddDiffName(0)
    \/ \E diffID \in DiffIDs, result \in Results, poiCount \in OnePoint :
          AddDiffDiffer(0, diffID, result, poiCount)
    \/ AddDiffReturn
    \/ \E useJSONP \in BOOLEAN : OutputRecords(useJSONP)
    \/ OutputCsv

SpecReport == Init /\ [][NextReport]_vars

\* A caller that compares up to MaxRecords pairs whose differs report point
\* counts on both sides of kMaxPOI, and then writes its JSON report.
NextPoi ==
    \/ \E differs \in DifferLists : SetDiffers(differs)
    \/ AddDiff(SkPathJoin(BaselineDir, NameList[1]), SkPathJoin(TestDir, NameList[1]))
    \/ AddDiffDecode(0, TRUE, TRUE)
    \/ AddDiffLink(0)
    \/ AddDiffName(0)
    \/ \E diffID \in DiffIDs, poiCount \in PoiCounts :
          AddDiffDiffer(0, diffID, IF diffID < 0 THEN RESULT_CORRECT ELSE 0, poiCount)
    \/ AddDiffReturn
    \/ \E useJSONP \in BOOLEAN : OutputRecords(useJSONP)

SpecPoi == Init /\ [][NextPoi]_vars

\* A caller that compares up to MaxRecords pairs one at a time and replaces
\* the differ list between two comparisons.
NextDiffers ==
    \/ \E differs \in DifferLists : SetDiffersBetweenRuns(differs)
    \/ AddDiff(SkPathJoin(BaselineDir, NameList[1]), SkPathJoin(TestDir, NameList[1]))
    \/ \E baselineOK, testOK \in BOOLEAN : AddDiffDecode(0, baselineOK, testOK)
    \/ AddDiffLink(0)
    \/ AddDiffName(0)
    \/ \E diffID \in DiffIDs, result \in Results, poiCount \in OnePoint :
          AddDiffDiffer(0, diffID, result, poiCount)
    \/ AddDiffReturn

SpecDiffers == Init /\ [][NextDiffers]_vars

\* A step of the runnable of some pool entry: SkThreadedDiff::run() calls
\* addDiff, whose decodes and differ calls return.
TaskStep ==
    \E t \in Pool :
        \/ \E baselineOK, testOK \in BOOLEAN : AddDiffDecode(t, baselineOK, testOK)
        \/ AddDiffLink(t)
        \/ AddDiffName(t)
        \/ \E diffID \in DiffIDs, result \in Results, poiCount \in OnePoint :
              AddDiffDiffer(t, diffID, result, poiCount)

\* The caller's thread goes on from threadPool.wait() or from a return
\* statement.
BatchReturn == DiffDirectoriesReturn \/ DiffPatternsReturn \/ EarlyReturn

\* A caller that configures the context and then only runs batches.
NextBatch ==
    \/ \E path \in OutDirs : SetDifferenceDir(path, TRUE)
    \/ \E n \in 0..MaxDiffers : SetDiffers(SubSeq(Differs, 1, n))
    \/ \E threadCount \in 1..(NumCores - 1) : SetThreadCount(threadCount)
    \/ \E ok \in BOOLEAN, entries \in EntryLists :
          \E kinds \in [1..Len(entries) -> Kinds] : DiffDirectories(ok, entries, kinds)
    \/ \E baselineOK, testOK \in BOOLEAN, baselineEntries, testEntries \in EntryLists :
          DiffPatterns(baselineOK, baselineEntries, testOK, testEntries)
    \/ TaskStep
    \/ BatchReturn

\* The threads of the pool keep running the runnables added to it, every
\* decode and every differ call returns, and the caller's thread is
\* scheduled: a task step that stays possible is taken, and so is the
\* caller's return.
SpecBatch == Init /\ [][NextBatch]_vars /\ WF_vars(TaskStep) /\ WF_vars(BatchReturn)

\* ------------------------------------------------------ property helpers
\* s is a subsequence of t: s is t with some elements left out.
RECURSIVE IsSubseq(_, _)
IsSubseq(s, t) ==
    IF s = <<>> THEN TRUE
    ELSE IF t = <<>> THEN FALSE
    ELSE IF Head(s) = Head(t) THEN IsSubseq(Tail(s), Tail(t))
    ELSE IsSubseq(s, Tail(t))

Names(differs) == [i \in 1..Len(differs) |-> differs[i].name]
DiffNames(diffs) == [i \in 1..Len(diffs) |-> diffs[i].fDiffName]

\* How many times x occurs in the sequence s.
Count(s, x) == Cardinality({i \in 1..Len(s) : s[i] = x})

\* The events of a log with the given operation, in order.
Only(log, op) == SelectSeq(log, LAMBDA e : e.op = op)

\* Task t has decoded both images and holds a record.
Loaded(t) == tasks[t].baselineBitmap /\ tasks[t].testBitmap
Done(t) == tasks[t].pc = "done"
Named(t) == tasks[t].pc \in {"loop", "done"} /\ tasks[t].newRecord # NULL

\* The runnables the current batch call has added to the pool.
Scheduled == {t \in Pool : tasks[t].pc # "none"}

\* ------------------------------------------------------------------ claims
\* C1: when diffDirectories, run with a pool wider than one thread over
\* pairs that all load, has drained its pool and is about to return, the
\* store holds the record of each pair exactly once and has grown by
\* exactly the number of pairs.
C1_NoLostRecord ==
    (/\ pc = "wait"
     /\ call.op = "diffDirectories"
     /\ Width > 1
     /\ PoolDrained
     /\ \A t \in Scheduled : Loaded(t))
    => /\ \A t \in Scheduled : Count(StoreSeq, tasks[t].newRecord) = 1
       /\ Len(StoreSeq) = Len(Walk(call.before)) + Cardinality(Scheduled)

\* C2: an addDiff whose two images loaded holds exactly one record of its
\* own, with at most fDifferCount diffs whose names are a subsequence of the
\* registered differs' names; called by the caller itself, it has put that
\* record at the head of the store the call found, and nothing else.
C2_OneRecordPerPair ==
    \A t \in Threads :
        (Done(t) /\ Loaded(t)) =>
            LET r == tasks[t].newRecord IN
            /\ r \in 1..Len(records)
            /\ \A u \in Threads \ {t} : tasks[u].newRecord # r
            /\ Len(records[r].fDiffs) <= fDifferCount
            /\ IsSubseq(DiffNames(records[r].fDiffs), Names(fDiffers))
            /\ records[r].fBaselinePath = tasks[t].fBaselinePath
            /\ records[r].fTestPath = tasks[t].fTestPath
            /\ t = 0 => StoreSeq = <<r>> \o Walk(call.before)

\* C2 witness: a direct call has finished with two differs registered, of
\* which only the second produced a diff.
C2_Witness ==
    /\ pc = "addDiff" /\ Done(0) /\ Loaded(0)
    /\ fDifferCount = 2
    /\ Len(records[tasks[0].newRecord].fDiffs) = 1
    /\ records[tasks[0].newRecord].fDiffs[1].fDiffName = fDiffers[2].name
    /\ call.before # NULL

\* An addDiff that has passed its decoding with an image that did not load.
LoadFailed(t) == tasks[t].pc \notin {"none", "start", "queued"} /\ ~Loaded(t)

C3_State ==
    \A t \in Threads :
        LoadFailed(t) => Done(t) /\ tasks[t].newRecord = NULL /\ tasks[t].calls = <<>>

C3_Step ==
    \A t \in Threads :
        (~LoadFailed(t) /\ LoadFailed(t)') =>
            /\ fRecords' = fRecords
            /\ records' = records

\* C3: an addDiff whose baseline or test image fails to decode has returned
\* without a record and without a call of any differ, and the step in which
\* the decoding fails changes neither the head of the store nor any record.
C3_LoadFailureLeavesStore == [] C3_State /\ [][C3_Step]_vars

\* C3 witness: the test image of a pair failed to decode while the store
\* held a record and a differ was registered.
C3_Witness ==
    \E t \in Threads :
        /\ LoadFailed(t) /\ tasks[t].baselineBitmap /\ ~tasks[t].testBitmap
        /\ fRecords # NULL
        /\ fDifferCount > 0

\* The pairs of C4: an artifact directory is set, exactly two differs are
\* registered, both answer true to enablePOIAlphaMask, and both have
\* compared the pair (returned a non-negative handle).
TwoMaskDiffers(t) ==
    /\ Done(t) /\ Loaded(t)
    /\ fDifferenceDir # <<>>
    /\ fDifferCount = 2
    /\ \A i \in 1..2 : fDiffers[i].mask
    /\ Len(records[tasks[t].newRecord].fDiffs) = 2

\* C4 as claimed: for such a pair exactly one artifact is written, and the
\* first differ in registry order writes it.
C4_ExactlyOneArtifact ==
    \A t \in Threads :
        TwoMaskDiffers(t) =>
            LET enc == Only(tasks[t].calls, "EncodeFile") IN
            Len(enc) = 1 /\ enc[1].differ = 0

\* C4 as amended: for such a pair at most one artifact is written; one is
\* written exactly when the result of the first differ in registry order is
\* not RESULT_CORRECT, and then the first differ writes it.
C4_AtMostOneArtifact ==
    \A t \in Threads :
        TwoMaskDiffers(t) =>
            LET enc == Only(tasks[t].calls, "EncodeFile")
                first == records[tasks[t].newRecord].fDiffs[1]
            IN  /\ Len(enc) <= 1
                /\ Len(enc) = 1 <=> first.fResult # RESULT_CORRECT
                /\ \A k \in 1..Len(enc) : enc[k].differ = 0
                /\ Len(Only(tasks[t].calls, "enablePOIAlphaMask")) = 1

\* C4 witness: such a pair, whose two differs both found a difference, with
\* its single artifact written.
C4_Witness ==
    \E t \in Threads :
        /\ TwoMaskDiffers(t)
        /\ \A k \in 1..2 : records[tasks[t].newRecord].fDiffs[k].fResult # RESULT_CORRECT
        /\ Len(Only(tasks[t].calls, "EncodeFile")) = 1
        /\ records[tasks[t].newRecord].fDifferencePath # <<>>

\* Position of the first event of log that is e, 0 when there is none.
IndexOf(log, e) ==
    IF \E k \in 1..Len(log) : log[k] = e
    THEN CHOOSE k \in 1..Len(log) : log[k] = e /\ \A j \in 1..(k - 1) : log[j] # e
    ELSE 0

\* Differ i of the registry answered true when asked for the alpha mask of
\* task t's pair and then returned a result other than RESULT_CORRECT.
MaskDifferFoundDifference(t, i) ==
    /\ Ev("enablePOIAlphaMask", i) \in Range(tasks[t].calls)
    /\ fDiffers[i + 1].mask
    /\ \E k \in 1..Len(records[tasks[t].newRecord].fDiffs) :
          /\ records[tasks[t].newRecord].fDiffs[k].fDiffName = fDiffers[i + 1].name
          /\ records[tasks[t].newRecord].fDiffs[k].fResult # RESULT_CORRECT

C5_State ==
    \A t \in Threads :
        tasks[t].newRecord # NULL =>
            LET log == tasks[t].calls
                enc == Only(log, "EncodeFile")
                path == records[tasks[t].newRecord].fDifferencePath
            IN  /\ Len(enc) <= 1
                /\ path # <<>> <=> Len(enc) = 1
                /\ \A k \in 1..Len(enc) :
                      /\ MaskDifferFoundDifference(t, enc[k].differ)
                      /\ IndexOf(log, Ev("getResult", enc[k].differ)) > 0
                      /\ IndexOf(log, Ev("getResult", enc[k].differ))
                            < IndexOf(log, enc[k])
                /\ (\A i \in 0..(fDifferCount - 1) : ~MaskDifferFoundDifference(t, i))
                      => path = <<>> /\ enc = <<>>

C5_Step ==
    \A r \in 1..Len(records) :
        records[r].fDifferencePath # <<>> =>
            records'[r].fDifferencePath = records[r].fDifferencePath

\* C5: the differencePath of a record is assigned at most once (once set it
\* never changes, and at most one artifact is encoded), and only after a
\* differ that answered true to enablePOIAlphaMask for the pair returned a
\* result other than RESULT_CORRECT; without such a differ the path stays
\* empty and nothing is encoded.
C5_DifferencePathOnce == [] C5_State /\ [][C5_Step]_vars

\* C5 witness: the second registered differ wrote the artifact of a pair and
\* the comparison went on to its end.
C5_Witness ==
    \E t \in Threads :
        /\ Done(t) /\ Loaded(t)
        /\ records[tasks[t].newRecord].fDifferencePath # <<>>
        /\ Only(tasks[t].calls, "EncodeFile") = <<Ev("EncodeFile", 1)>>
        /\ Len(records[tasks[t].newRecord].fDiffs) = 2

\* s is a prefix of a.
IsPrefix(s, a) == Len(s) <= Len(a) /\ \A j \in 1..Len(s) : s[j] = a[j]

BaseName(t) == SkBasename(tasks[t].fBaselinePath)
TestName(t) == SkBasename(tasks[t].fTestPath)
CommonName(t) == records[tasks[t].newRecord].fCommonName
Shorter(a, b) == IF Len(a) > Len(b) THEN b ELSE a

\* C6 as claimed: with two non-empty base filenames the common name is not
\* empty, and it is the shorter base filename when they differ at index 0.
C6_CommonNameNonEmpty ==
    \A t \in Threads :
        (Named(t) /\ BaseName(t) # <<>> /\ TestName(t) # <<>>) =>
            /\ CommonName(t) # <<>>
            /\ BaseName(t)[1] # TestName(t)[1]
                  => CommonName(t) = Shorter(BaseName(t), TestName(t))

\* C6 as amended: with two non-empty base filenames the common name is
\* their longest common prefix; it is non-empty exactly when they start with
\* the same character, and empty when they differ at index 0.
C6_CommonNameIsPrefix ==
    \A t \in Threads :
        (Named(t) /\ BaseName(t) # <<>> /\ TestName(t) # <<>>) =>
            LET a == BaseName(t)
                b == TestName(t)
                c == CommonName(t)
            IN  /\ IsPrefix(c, a) /\ IsPrefix(c, b)
                /\ \/ Len(c) = Min(Len(a), Len(b))
                   \/ a[Len(c) + 1] # b[Len(c) + 1]
                /\ c # <<>> <=> a[1] = b[1]

\* C6 witness: two base filenames that differ at index 0 got the empty name.
C6_Witness ==
    /\ Named(0)
    /\ Len(BaseName(0)) = 2 /\ Len(TestName(0)) = 3
    /\ BaseName(0)[1] # TestName(0)[1]
    /\ CommonName(0) = <<>>

\* cat.png and category.png, the spec's example.
CatPng == <<"c", "a", "t", ".", "p", "n", "g">>
CategoryPng == <<"c", "a", "t", "e", "g", "o", "r", "y", ".", "p", "n", "g">>

\* C7: for non-empty base filenames a and b that first differ at an index k
\* with 1 <= k < min(|a|,|b|) the common name is the first k characters of
\* a; when one is a prefix of the other it is the shorter one, a for equal
\* lengths. cat.png and category.png give cat.
C7_CommonPrefix ==
    /\ \A t \in Threads :
        (Named(t) /\ BaseName(t) # <<>> /\ TestName(t) # <<>>) =>
            LET a == BaseName(t)
                b == TestName(t)
                m == Min(Len(a), Len(b))
            IN  /\ \A k \in 1..(m - 1) :
                      ((\A j \in 1..k : a[j] = b[j]) /\ a[k + 1] # b[k + 1])
                          => CommonName(t) = SubSeq(a, 1, k)
                /\ (\A j \in 1..m : a[j] = b[j])
                      => CommonName(t) = (IF Len(a) <= Len(b) THEN a ELSE b)
    /\ get_common_prefix(CatPng, CategoryPng) = <<"c", "a", "t">>
    /\ get_common_prefix(CategoryPng, CatPng) = <<"c", "a", "t">>

\* C7 witness: base filenames of lengths 3 and 2 that agree on their first
\* character only, named by that character.
C7_Witness ==
    /\ Named(0)
    /\ Len(BaseName(0)) = 3 /\ Len(TestName(0)) = 2
    /\ BaseName(0)[1] = TestName(0)[1] /\ BaseName(0)[2] # TestName(0)[2]
    /\ CommonName(0) = <<BaseName(0)[1]>>

\* diffPatterns has expanded both globs, to lists of different lengths.
Mismatched ==
    /\ call.op = "diffPatterns"
    /\ call.ok
    /\ Len(call.baselineEntries) # Len(call.testEntries)

C8_State ==
    Mismatched =>
        /\ pc = "return"
        /\ fRecords = call.before
        /\ \A t \in Threads : tasks[t] = NoTask

C8_Step ==
    (Mismatched \/ Mismatched') =>
        /\ pc' \in {"return", "idle"}
        /\ fRecords' = fRecords
        /\ records' = records
        /\ tasks' = tasks

\* C8: when the two globs expand to lists of different lengths, diffPatterns
\* goes to its return statement and returns with no runnable set up or
\* queued (so no addDiff runs and no differ is called), and with the head of
\* the store and every record as they were before the call.
C8_MismatchAborts == [] C8_State /\ [][C8_Step]_vars

\* C8 witness: diffPatterns is at its return statement after expansions of
\* lengths 2 and 1, with a record in the store and a differ registered.
C8_Witness ==
    /\ Mismatched /\ pc = "return"
    /\ Len(call.baselineEntries) = 2 /\ Len(call.testEntries) = 1
    /\ fRecords # NULL
    /\ fDifferCount > 0

\* The entries of the listing whose path under the test directory is a file.
WithTestFile == {x \in 1..Len(call.baselineEntries) : call.kinds[x] = "file"}

\* C9: diffDirectories queues a runnable for a baseline entry exactly when
\* the path of the same name under the test directory exists and is no
\* directory, on the two paths of that name; the other entries are skipped,
\* and when the pool has drained the runnables that ran are as many as the
\* entries with a regular test file.
C9_QueuesRegularFiles ==
    (pc = "wait" /\ call.op = "diffDirectories") =>
        /\ Scheduled = WithTestFile
        /\ \A x \in WithTestFile :
              /\ tasks[x].fBaselinePath = SkPathJoin(BaselineDir, call.baselineEntries[x])
              /\ tasks[x].fTestPath = SkPathJoin(TestDir, call.baselineEntries[x])
        /\ PoolDrained =>
              Cardinality({t \in Pool : Done(t)}) = Cardinality(WithTestFile)

\* C9 witness: of two baseline entries the first has no test file and the
\* second has one, and the single comparison has run.
C9_Witness ==
    /\ pc = "wait" /\ call.op = "diffDirectories"
    /\ Len(call.baselineEntries) = 2
    /\ call.kinds = <<"missing", "file">>
    /\ PoolDrained
    /\ Done(2) /\ Loaded(2)

C10_Step ==
    /\ (pc = "wait" /\ pc' = "idle") => \A t \in Pool : Finished(t)
    /\ pc = "idle" => fRecords' = fRecords /\ records' = records

\* C10: diffDirectories and diffPatterns return only when every runnable
\* they queued has finished its addDiff; once the caller is back, no task
\* is left and no step links a record or changes one.
C10_ReturnsAfterAllTasks ==
    [] (pc = "idle" => \A t \in Threads : tasks[t] = NoTask) /\ [][C10_Step]_vars

\* C10 witness: a batch call is about to return from a pool of two threads
\* that ran two comparisons.
C10_Witness ==
    /\ pc = "wait" /\ PoolDrained
    /\ Width > 1
    /\ Cardinality({t \in Pool : Done(t) /\ Loaded(t)}) = 2

\* ------------------------------------------------------- reading reports
\* The positions of the string tok in text, ascending.
Positions(text, tok) ==
    SelectSeq([i \in 1..Len(text) |-> i], LAMBDA i : text[i] = tok)

\* The first position after from at which text holds tok.
NextAt(text, from, tok) ==
    CHOOSE i \in (from + 1)..Len(text) :
        text[i] = tok /\ \A j \in (from + 1)..(i - 1) : text[j] # tok

\* The pieces of text that follow each open, up to the next close.
Between(text, open, close) ==
    LET at == Positions(text, open)
    IN  [k \in 1..Len(at) |-> SubSeq(text, at[k] + 1, NextAt(text, at[k], close) - 1)]

\* The number a sequence of decimal digits, with or without a sign, writes.
RECURSIVE ParseDec(_)
ParseDec(digits) ==
    IF digits = <<>> THEN 0
    ELSE IF Head(digits) = "-" THEN 0 - ParseDec(Tail(digits))
    ELSE 10 * ParseDec(SubSeq(digits, 1, Len(digits) - 1))
         + ((CHOOSE d \in 1..10 : Digits[d] = digits[Len(digits)]) - 1)

\* The point a piece "x,y" of the JSON report writes.
ParsePoint(piece) ==
    LET comma == NextAt(piece, 0, ",")
    IN  <<ParseDec(SubSeq(piece, 1, comma - 1)),
          ParseDec(SubSeq(piece, comma + 1, Len(piece)))>>

\* The point lists of a JSON report, one per "pointsOfInterest" array, in
\* the order of the text.
JsonPointLists(text) ==
    LET lists == Between(text, "                    \"pointsOfInterest\": [\n",
                         "                    ]\n")
    IN  [k \in 1..Len(lists) |->
            LET pieces == Between(lists[k], "                        [", "]")
            IN  [j \in 1..Len(pieces) |-> ParsePoint(pieces[j])]]

\* The DiffData of the store, in the order outputRecords meets them.
StoreDiffs == Cat([k \in 1..Len(StoreSeq) |-> records[StoreSeq[k]].fDiffs])

\* The counts getPointsOfInterestCount returned to task t, in call order.
ReportedCounts(t) ==
    LET evs == Only(tasks[t].calls, "getPointsOfInterestCount")
    IN  [k \in 1..Len(evs) |-> evs[k].count]

\* C11: a JSON report holds, for every DiffData of the store, exactly its
\* first min(n, kMaxPOI) points of interest in collection order, n being the
\* number of points the DiffData holds; and the DiffData of a finished
\* addDiff holds all the points its differ reported, whatever their number.
C11_EmitsFirstPoints ==
    /\ stream.json # <<>> =>
          JsonPointLists(stream.json) =
              [k \in 1..Len(StoreDiffs) |->
                  SubSeq(StoreDiffs[k].fPointsOfInterest, 1,
                         Min(Len(StoreDiffs[k].fPointsOfInterest), kMaxPOI))]
    /\ \A t \in Threads :
          (Done(t) /\ Loaded(t)) =>
              LET fDiffs == records[tasks[t].newRecord].fDiffs
                  counts == ReportedCounts(t)
              IN  /\ Len(counts) = Len(fDiffs)
                  /\ \A k \in 1..Len(fDiffs) :
                        fDiffs[k].fPointsOfInterest = Points(counts[k])

\* C11 witness: a JSON report of a store with a DiffData of more than
\* kMaxPOI points, of which kMaxPOI are in the report, and one of two points.
C11_Witness ==
    /\ stream.json # <<>>
    /\ \E k, j \in 1..Len(StoreDiffs) :
          /\ Len(StoreDiffs[k].fPointsOfInterest) = kMaxPOI + 1
          /\ Len(JsonPointLists(stream.json)[k]) = kMaxPOI
          /\ Len(StoreDiffs[j].fPointsOfInterest) = 2
          /\ Len(JsonPointLists(stream.json)[j]) = 2

\* What a JSON report lists for its records, in the order of the text:
\* the common name and the two paths of each.
JsonRecords(text) ==
    LET names == Between(text, "            \"commonName\": \"", "\",\n")
        baselines == Between(text, "            \"baselinePath\": \"", "\",\n")
        tests == Between(text, "            \"testPath\": \"", "\",\n")
    IN  [k \in 1..Len(names) |->
            [commonName |-> names[k], baselinePath |-> baselines[k], testPath |-> tests[k]]]

\* The same of the records of the sequence list of record ids.
ListedAs(list) ==
    [k \in 1..Len(list) |->
        [commonName |-> records[list[k]].fCommonName,
         baselinePath |-> get_absolute_path(records[list[k]].fBaselinePath),
         testPath |-> get_absolute_path(records[list[k]].fTestPath)]]

\* The ids n, n-1, ..., 1: of the records of n successful calls, the latest
\* first (record i is the one the i-th successful call allocated).
LatestFirst(n) == [k \in 1..n |-> n + 1 - k]

C12_State ==
    /\ pc = "idle" => StoreSeq = LatestFirst(Len(records))
    /\ stream.json # <<>> => JsonRecords(stream.json) = ListedAs(LatestFirst(Len(records)))

C12_Step ==
    \/ StoreSeq' = StoreSeq
    \/ Len(StoreSeq') = Len(StoreSeq) + 1 /\ Tail(StoreSeq') = StoreSeq

\* C12: after the caller's own successful addDiff calls on p1, ..., pn the
\* store is pn, ..., p1 and a JSON report lists the records in that order;
\* every step leaves the list as it was or puts one record before it, so an
\* insertion never changes the order of the records already there.
C12_ReverseOfInsertion == [] C12_State /\ [][C12_Step]_vars

\* C12 witness: a JSON report of three records, the first and the last
\* inserted being of different files.
C12_Witness ==
    /\ stream.json # <<>>
    /\ Len(StoreSeq) = 3
    /\ Len(JsonRecords(stream.json)) = 3
    /\ records[1].fBaselinePath # records[3].fBaselinePath
    /\ JsonRecords(stream.json)[3].baselinePath = get_absolute_path(records[1].fBaselinePath)

\* A JSON report without its first and last strings, the two that differ
\* between JSON and JSONP.
Body(text) == SubSeq(text, 2, Len(text) - 1)

C13_Step ==
    /\ stream' # stream =>
          /\ fRecords' = fRecords
          /\ records' = records
          /\ StoreSeq' = StoreSeq
    /\ (stream.json # <<>> /\ pc = "idle" /\ pc' = "idle" /\ records' = records) =>
          /\ Body(stream'.json) = Body(stream.json)
          /\ Head(stream'.json) = Head(stream.json) => stream'.json = stream.json
    /\ (stream.csv # <<>> /\ pc = "idle" /\ pc' = "idle" /\ records' = records) =>
          stream'.csv = stream.csv

\* C13: a step that writes a report changes neither the head of the store
\* nor any record (same records, same order, same fields); and once a report
\* is written, whatever the caller does next without a comparison, another
\* outputRecords or outputCsv call included, leaves a JSON report with the
\* same text (up to the JSONP wrapping asked for) and the same CSV report.
C13_ReportsLeaveStore == [][C13_Step]_vars

\* C13 witness: both reports are written of a store of two records, one of
\* them with a difference path, and the store is as the comparisons left it.
C13_Witness ==
    /\ stream.json # <<>> /\ stream.csv # <<>>
    /\ StoreSeq = <<2, 1>>
    /\ records[1].fDifferencePath # <<>>
    /\ Len(records[2].fDiffs) = 2
    /\ JsonRecords(stream.json) = ListedAs(StoreSeq)

\* The pieces of text that the string tok separates.
SplitAt(text, tok) ==
    LET at == Positions(text, tok)
    IN  [k \in 1..(Len(at) + 1) |->
            SubSeq(text, IF k = 1 THEN 1 ELSE at[k - 1] + 1,
                         IF k <= Len(at) THEN at[k] - 1 ELSE Len(text))]

\* The lines of a CSV report (each ends with a newline), and the cells of a
\* line.
CsvLines(text) ==
    LET pieces == SplitAt(text, "\n") IN SubSeq(pieces, 1, Len(pieces) - 1)

CsvCells(line) == SplitAt(line, ", ")

\* The differ names of the DiffData of the store, in the order in which a
\* walk of the store meets them, and those of them not met before.
StoreDiffNames == [k \in 1..Len(StoreDiffs) |-> StoreDiffs[k].fDiffName]

FirstSeenIn(names) ==
    LET first == SelectSeq([k \in 1..Len(names) |-> k],
                           LAMBDA k : \A j \in 1..(k - 1) : names[j] # names[k])
    IN  [k \in 1..Len(first) |-> names[first[k]]]

\* C14: the first line of a CSV report is key followed by the differ names
\* that occur in the diffs of the store, each once, in the order in which
\* they are first met walking the store and each record's diffs.
C14_HeaderFirstSeen ==
    stream.csv # <<>> =>
        LET columns == FirstSeenIn(StoreDiffNames)
        IN  CsvCells(CsvLines(stream.csv)[1]) =
                << <<"key">> >> \o [k \in 1..Len(columns) |-> <<columns[k]>>]

\* C14 witness: a CSV report whose header is key, C, A: the record at the
\* head has a diff of C only, a later one diffs of A and C.
C14_Witness ==
    /\ stream.csv # <<>>
    /\ CsvCells(CsvLines(stream.csv)[1]) = << <<"key">>, <<"C">>, <<"A">> >>
    /\ Len(StoreSeq) = 3
    /\ Len(StoreDiffs) >= 4

\* The whole number a cell written with "%f" holds: what precedes the point.
ParseFloat(cell) == ParseDec(SubSeq(cell, 1, NextAt(cell, 0, ".") - 1))

\* The result of the DiffData named fDiffName among fDiffs, -1 without one.
ResultFor(fDiffs, fDiffName) ==
    IF \E k \in 1..Len(fDiffs) : fDiffs[k].fDiffName = fDiffName
    THEN fDiffs[CHOOSE k \in 1..Len(fDiffs) : fDiffs[k].fDiffName = fDiffName].fResult
    ELSE -1

\* C15: after its header a CSV report has one line per record of the store,
\* in store order; the line starts with the last segment of the record's
\* baseline path, and under each column of the header it holds the result of
\* the record's DiffData of that name, or -1 when the record has none (so
\* never a value of another record).
C15_OneRowPerRecord ==
    stream.csv # <<>> =>
        LET lines == CsvLines(stream.csv)
            header == CsvCells(lines[1])
        IN  /\ Len(lines) = Len(StoreSeq) + 1
            /\ \A k \in 1..Len(StoreSeq) :
                  LET cells == CsvCells(lines[k + 1])
                      R == records[StoreSeq[k]]
                  IN  /\ Len(cells) = Len(header)
                      /\ cells[1] = SkBasename(R.fBaselinePath)
                      /\ \A c \in 2..Len(header) :
                            ParseFloat(cells[c]) = ResultFor(R.fDiffs, header[c][1])

\* C15 witness: a CSV report in which the row of the head record has a
\* result under C and -1 under A, and the row after it a result under A and
\* -1 under C.
C15_Witness ==
    /\ stream.csv # <<>>
    /\ Len(StoreSeq) = 3
    /\ LET lines == CsvLines(stream.csv)
       IN  /\ CsvCells(lines[1]) = << <<"key">>, <<"C">>, <<"A">> >>
           /\ ParseFloat(CsvCells(lines[2])[2]) = 0
           /\ ParseFloat(CsvCells(lines[2])[3]) = -1
           /\ ParseFloat(CsvCells(lines[3])[2]) = -1
           /\ ParseFloat(CsvCells(lines[3])[3]) = RESULT_CORRECT

\* C16: once the caller's last setDifferenceDir call failed to create its
\* directory, no addDiff asks a differ for the alpha mask or writes an
\* artifact, and no record has a difference path, whatever setDifferenceDir
\* calls came before the failed one.
C16_FailedMkdirDisables ==
    mkdirFailed =>
        /\ \A t \in Threads :
              /\ Only(tasks[t].calls, "enablePOIAlphaMask") = <<>>
              /\ Only(tasks[t].calls, "EncodeFile") = <<>>
        /\ \A r \in 1..Len(records) : records[r].fDifferencePath = <<>>

\* The tasks between the read of the head (line 98) and its write (line 99).
Linking == {t \in Threads : tasks[t].pc = "link"}

\* C17: no two addDiff tasks are at once between reading the head of the
\* store and writing it.
C17_LinkMutex == Cardinality(Linking) <= 1

\* The record of task t can be reached from the head of the store.
InStore(t) == tasks[t].newRecord # NULL /\ tasks[t].newRecord \in Range(StoreSeq)

C18_State == \A t \in Threads : InStore(t) => Done(t)

C18_Step ==
    \A r \in Range(StoreSeq) :
        /\ r \in Range(StoreSeq')
        /\ records'[r].fCommonName = records[r].fCommonName
        /\ records'[r].fDiffs = records[r].fDiffs
        /\ records'[r].fBaselinePath = records[r].fBaselinePath
        /\ records'[r].fTestPath = records[r].fTestPath
        /\ records'[r].fNext = records[r].fNext

\* C18: a record that can be reached from the head of the store belongs to
\* an addDiff that has finished populating it, and no step changes the
\* common name, the diffs, the paths or the link of a record in the store.
C18_LinkedWhenPopulated == [] C18_State /\ [][C18_Step]_vars

\* The accessors of a handle.
Accessors ==
    {"getResult", "getPointsOfInterestCount", "getPointsOfInterest",
     "getPointsOfInterestAlphaMask"}

\* The positions in log of the events of differ i whose operation is in ops.
EventsAt(log, ops, i) ==
    SelectSeq([p \in 1..Len(log) |-> p], LAMBDA p : log[p].op \in ops /\ log[p].differ = i)

\* C19: in the calls of an addDiff, a queueDiff that returned a non-negative
\* handle is followed by exactly one deleteDiff of its differ, which comes
\* before the next queueDiff; the accessor calls of that differ (getResult
\* among them) lie between the two; after a negative handle the differ gets
\* no accessor call and no deleteDiff; and every deleteDiff follows a
\* queueDiff of its differ that returned a non-negative handle.
C19_ReleasedOnce ==
    \A t \in Threads :
        LET log == tasks[t].calls IN
        \A q \in 1..Len(log) :
            /\ log[q].op = "queueDiff" =>
                  LET i == log[q].differ
                      dels == EventsAt(log, {"deleteDiff"}, i)
                      accs == EventsAt(log, Accessors, i)
                  IN  /\ Len(EventsAt(log, {"queueDiff"}, i)) = 1
                      /\ IF log[q].handle >= 0
                         THEN /\ Len(dels) = 1
                              /\ q < dels[1]
                              /\ \A k \in 1..Len(accs) : q < accs[k] /\ accs[k] < dels[1]
                              /\ \E k \in 1..Len(accs) : log[accs[k]].op = "getResult"
                              /\ \A n \in (q + 1)..Len(log) :
                                    log[n].op = "queueDiff" => dels[1] < n
                         ELSE dels = <<>> /\ accs = <<>>
            /\ log[q].op = "deleteDiff" =>
                  \E n \in 1..(q - 1) :
                      /\ log[n].op = "queueDiff"
                      /\ log[n].differ = log[q].differ
                      /\ log[n].handle >= 0

\* C19 witness: a finished addDiff whose first differ returned a negative
\* handle and whose second differ returned a handle, wrote the alpha mask
\* and had its handle released.
C19_Witness ==
    \E t \in Threads :
        /\ Done(t) /\ Loaded(t)
        /\ Only(tasks[t].calls, "queueDiff") = <<QueueEv(0, -1), QueueEv(1, 0)>>
        /\ Only(tasks[t].calls, "deleteDiff") = <<Ev("deleteDiff", 1)>>
        /\ Only(tasks[t].calls, "getPointsOfInterestAlphaMask")
              = <<Ev("getPointsOfInterestAlphaMask", 1)>>

\* The handles queueDiff returned to task t, in call order.
Handles(t) ==
    LET evs == Only(tasks[t].calls, "queueDiff") IN [k \in 1..Len(evs) |-> evs[k].handle]

\* Task t's last differ step got a negative handle.
Declined(t) ==
    /\ Handles(t) # <<>>
    /\ Handles(t)[Len(Handles(t))] < 0

C20_State ==
    \A t \in Threads :
        (Done(t) /\ Loaded(t)) =>
            LET handles == Handles(t)
                compared == SelectSeq([k \in 1..Len(handles) |-> k],
                                      LAMBDA k : handles[k] >= 0)
                fDiffs == records[tasks[t].newRecord].fDiffs
            IN  /\ Len(handles) = fDifferCount
                /\ \A k \in 1..Len(handles) :
                      Only(tasks[t].calls, "queueDiff")[k].differ = k - 1
                /\ DiffNames(fDiffs) = [k \in 1..Len(compared) |-> fDiffers[compared[k]].name]
                /\ t = 0 => InStore(t)

C20_Step ==
    \A t \in Threads :
        (Len(Handles(t)') = Len(Handles(t)) + 1 /\ Declined(t)') =>
            /\ fRecords' = fRecords
            /\ records' = records
            /\ tasks'[t].pc = LoopPc(Len(Handles(t)'))

\* C20: an addDiff queues every differ of the registry, in registry order,
\* whatever handles it gets back; its record holds one DiffData for each
\* non-negative handle and none for a negative one; the step in which a
\* differ returns a negative handle changes neither the store nor any
\* record and goes on to the next differ when there is one; and the record
\* of a direct call is in the store when the call is done.
C20_DeclineIsNotFatal == [] C20_State /\ [][C20_Step]_vars

\* C20 witness: the first of two differs declined the pair, the second
\* compared it, and the record with its single DiffData is in the store.
C20_Witness ==
    \E t \in Threads :
        /\ Done(t) /\ Loaded(t)
        /\ Handles(t) = <<-1, 0>>
        /\ DiffNames(records[tasks[t].newRecord].fDiffs) = <<fDiffers[2].name>>
        /\ InStore(t)

\* C21: while diffPatterns waits for its pool, the two expansions have the
\* same length n, the runnables set up are exactly the first n, and the x-th
\* one is on the x-th baseline entry and the x-th test entry (whatever their
\* names); the record of a comparison that loaded holds those two paths.
C21_PairsByPosition ==
    (pc = "wait" /\ call.op = "diffPatterns") =>
        /\ Len(call.baselineEntries) = Len(call.testEntries)
        /\ Scheduled = 1..Len(call.baselineEntries)
        /\ \A x \in Scheduled :
              /\ tasks[x].fBaselinePath = call.baselineEntries[x]
              /\ tasks[x].fTestPath = call.testEntries[x]
              /\ tasks[x].newRecord # NULL =>
                    /\ records[tasks[x].newRecord].fBaselinePath = call.baselineEntries[x]
                    /\ records[tasks[x].newRecord].fTestPath = call.testEntries[x]

\* C21 witness: two expansions of two entries each, both pairs compared.
C21_Witness ==
    /\ pc = "wait" /\ call.op = "diffPatterns"
    /\ Len(call.baselineEntries) = 2
    /\ call.testEntries[1] # call.testEntries[2]
    /\ PoolDrained
    /\ \A x \in 1..2 : Done(x) /\ Loaded(x)

\* C21 and names: entries of different names are paired when they have the
\* same position.
C21_WitnessNames ==
    /\ pc = "wait" /\ call.op = "diffPatterns"
    /\ Len(call.baselineEntries) = 1
    /\ SkBasename(call.baselineEntries[1]) # SkBasename(call.testEntries[1])
    /\ Done(1) /\ Loaded(1)

\* The names of the differs of list differs whose queueDiff event in evs
\* carries a non-negative handle, in list order.
Answered(differs, evs) ==
    LET at == SelectSeq([k \in 1..Len(evs) |-> k], LAMBDA k : evs[k].handle >= 0)
    IN  [n \in 1..Len(at) |-> differs[at[n]].name]

\* C22: the differ array is the list of the caller's last setDiffers call
\* (so fDifferCount is its length); an addDiff queues the differs of that
\* list by index 0, 1, ... in order, all of them once it is done, and the
\* names on its record are those of that list's differs that returned a
\* handle, whatever list was configured for the comparisons before it.
C22_UsesLastList ==
    /\ fDiffers = lastDiffers
    /\ fDifferCount = Len(lastDiffers)
    /\ \A t \in Threads :
          tasks[t].newRecord # NULL =>
              LET evs == Only(tasks[t].calls, "queueDiff") IN
              /\ Len(evs) <= Len(lastDiffers)
              /\ \A k \in 1..Len(evs) : evs[k].differ = k - 1
              /\ Done(t) => Len(evs) = Len(lastDiffers)
              /\ DiffNames(records[tasks[t].newRecord].fDiffs) = Answered(lastDiffers, evs)

\* C22 witness: a first comparison was made with differ "A" alone, the list
\* was then replaced by "C", "B", and the second comparison queued those two
\* and no other.
C22_Witness ==
    /\ Done(0) /\ Loaded(0)
    /\ call.before # NULL
    /\ DiffNames(records[call.before].fDiffs) = <<"A">>
    /\ Names(lastDiffers) = <<"C", "B">>
    /\ Len(Only(tasks[0].calls, "queueDiff")) = 2
    /\ DiffNames(records[tasks[0].newRecord].fDiffs) = <<"C", "B">>

\* Every close in the piece seg of a report is followed by a comma, except
\* the last one, which is not.
Separated(seg, close) ==
    LET at == Positions(seg, close)
    IN  \A k \in 1..Len(at) :
            (at[k] < Len(seg) /\ seg[at[k] + 1] = ",") <=> (k < Len(at))

\* The strings that close a record, a DiffData and a point in a JSON report.
JsonCloses == {"        }", "                }", "]"}

\* C23: in a JSON report the records of the store, the DiffData of each
\* record and the emitted points of each DiffData are each followed by a
\* comma, except the last one of its list, which is followed by none; the
\* report has as many records as the store, as many DiffData per record and
\* min(n, kMaxPOI) points per DiffData of n points; and it holds no other
\* comma than these and the one between the coordinates of a point.
C23_NoTrailingComma ==
    stream.json # <<>> =>
        LET text == stream.json
            diffLists == Between(text, "            \"diffs\": [\n", "            ]\n")
            pointLists == Between(text, "                    \"pointsOfInterest\": [\n",
                                  "                    ]\n")
        IN  /\ Separated(text, "        }")
            /\ Len(Positions(text, "        }")) = Len(StoreSeq)
            /\ Len(diffLists) = Len(StoreSeq)
            /\ \A k \in 1..Len(diffLists) :
                  /\ Separated(diffLists[k], "                }")
                  /\ Len(Positions(diffLists[k], "                }"))
                        = Len(records[StoreSeq[k]].fDiffs)
            /\ Len(pointLists) = Len(StoreDiffs)
            /\ \A k \in 1..Len(pointLists) :
                  /\ Separated(pointLists[k], "]")
                  /\ Len(Positions(pointLists[k], "]"))
                        = Min(Len(StoreDiffs[k].fPointsOfInterest), kMaxPOI)
            /\ \A p \in 1..Len(text) :
                  text[p] = "," => p > 1 /\ text[p - 1] \in JsonCloses \cup Range(Digits)

\* C23 witness: a JSON report of two records, the first with two DiffData,
\* one of more than kMaxPOI points and one of none, the second with no
\* DiffData.
C23_Witness ==
    /\ stream.json # <<>>
    /\ Len(StoreSeq) = 2
    /\ Len(records[StoreSeq[1]].fDiffs) = 2
    /\ records[StoreSeq[2]].fDiffs = <<>>
    /\ \E k, j \in 1..2 :
          /\ Len(records[StoreSeq[1]].fDiffs[k].fPointsOfInterest) = kMaxPOI + 1
          /\ records[StoreSeq[1]].fDiffs[j].fPointsOfInterest = <<>>

\* C23 and the empty store: a JSON report of no record.
C23_WitnessEmpty ==
    /\ stream.json # <<>>
    /\ StoreSeq = <<>>
    /\ Positions(stream.json, ",") = <<>>

\* C24: a batch call that has started (it waits for its pool, or is at a
\* return statement) returns; every runnable added to the pool runs to its
\* end; and a runnable that has started can always take its next step,
\* whatever the other runnables of the batch are doing, while a queued one
\* can start as soon as a thread of the pool is free.
C24_BatchReturns ==
    /\ (pc \in {"wait", "return"}) ~> (pc = "idle")
    /\ \A t \in Pool : (tasks[t].pc = "queued") ~> (tasks[t].pc = "done")
    /\ [](\A t \in Pool :
            /\ tasks[t].pc = "link" => ENABLED AddDiffLink(t)
            /\ tasks[t].pc = "name" => ENABLED AddDiffName(t)
            /\ tasks[t].pc = "loop" =>
                  ENABLED (\E diffID \in DiffIDs, result \in Results, poiCount \in OnePoint :
                              AddDiffDiffer(t, diffID, result, poiCount))
            /\ (tasks[t].pc = "queued" /\ \A u \in Pool : ~Running(u)) =>
                  ENABLED (\E baselineOK, testOK \in BOOLEAN :
                              AddDiffDecode(t, baselineOK, testOK)))

\* C24 witness: the caller waits for a pool of MaxEntries runnables, one of
\* which is at its second differ while another has not started.
C24_Witness ==
    /\ pc = "wait"
    /\ \E t, u \in Pool :
          /\ tasks[t].pc = "loop" /\ Len(Only(tasks[t].calls, "queueDiff")) = 1
          /\ tasks[u].pc = "queued"

\* In the calls log, differ i was asked enablePOIAlphaMask, which it answers
\* with true, and its queueDiff returned a handle for which sign holds.
AnsweredTrue(log, i, sign(_)) ==
    /\ EventsAt(log, {"enablePOIAlphaMask"}, i) # <<>>
    /\ fDiffers[i + 1].mask
    /\ \E q \in 1..Len(log) :
          log[q].op = "queueDiff" /\ log[q].differ = i /\ sign(log[q].handle)

\* C25: in the calls of an addDiff, after a differ that answered true to
\* enablePOIAlphaMask and returned a non-negative handle, whatever its
\* result, no later differ is asked enablePOIAlphaMask, is asked for its
\* mask bitmap or has a file encoded; after a differ that answered true and
\* returned a negative handle, the next differ queued is asked
\* enablePOIAlphaMask first.
C25_SlotTakenByFirstHandle ==
    \A t \in Threads :
        LET log == tasks[t].calls IN
        \A i \in 0..(fDifferCount - 1) :
            /\ AnsweredTrue(log, i, LAMBDA h : h >= 0) =>
                  \A j \in (i + 1)..(fDifferCount - 1) :
                      EventsAt(log, {"enablePOIAlphaMask", "getPointsOfInterestAlphaMask",
                                     "EncodeFile"}, j) = <<>>
            /\ (/\ AnsweredTrue(log, i, LAMBDA h : h < 0)
                /\ EventsAt(log, {"queueDiff"}, i + 1) # <<>>) =>
                  /\ Len(EventsAt(log, {"enablePOIAlphaMask"}, i + 1)) = 1
                  /\ EventsAt(log, {"enablePOIAlphaMask"}, i + 1)[1]
                        < EventsAt(log, {"queueDiff"}, i + 1)[1]

\* C25 witness: the first differ answered true and returned a handle with
\* RESULT_CORRECT; the second, which also answers true, found a difference,
\* was not asked and no artifact was written.
C25_Witness ==
    \E t \in Threads :
        /\ TwoMaskDiffers(t)
        /\ records[tasks[t].newRecord].fDiffs[1].fResult = RESULT_CORRECT
        /\ records[tasks[t].newRecord].fDiffs[2].fResult # RESULT_CORRECT
        /\ Only(tasks[t].calls, "enablePOIAlphaMask") = <<Ev("enablePOIAlphaMask", 0)>>
        /\ Only(tasks[t].calls, "EncodeFile") = <<>>
        /\ records[tasks[t].newRecord].fDifferencePath = <<>>

\* C25 and a negative handle: the first differ answered true and returned a
\* negative handle; the second was asked and its artifact was written.
C25_WitnessDeclined ==
    \E t \in Threads :
        /\ Done(t) /\ Loaded(t)
        /\ fDifferCount = 2
        /\ AnsweredTrue(tasks[t].calls, 0, LAMBDA h : h < 0)
        /\ Only(tasks[t].calls, "enablePOIAlphaMask")
              = <<Ev("enablePOIAlphaMask", 0), Ev("enablePOIAlphaMask", 1)>>
        /\ Only(tasks[t].calls, "EncodeFile") = <<Ev("EncodeFile", 1)>>

\* A batch call whose listing failed: get_directory on the baseline
\* directory, or glob_files on either pattern.
Unlisted == call.op \in {"diffDirectories", "diffPatterns"} /\ ~call.ok

C26_State ==
    Unlisted =>
        /\ pc = "return"
        /\ fRecords = call.before
        /\ \A t \in Threads : tasks[t] = NoTask

C26_Step ==
    (Unlisted \/ Unlisted') =>
        /\ pc' \in {"return", "idle"}
        /\ fRecords' = fRecords
        /\ records' = records
        /\ tasks' = tasks

\* C26: when the baseline directory cannot be listed, or one of the two
\* globs cannot be expanded, the batch call goes to its return statement and
\* returns with no runnable set up or added to a pool, and with the head of
\* the store and every record as they were before the call.
C26_FailedListingAborts == [] C26_State /\ [][C26_Step]_vars

\* C26 witness: diffPatterns is at its return statement after its test glob
\* failed while the baseline glob gave two entries, with a record in the
\* store and a differ registered.
C26_Witness ==
    /\ Unlisted /\ pc = "return"
    /\ call.op = "diffPatterns"
    /\ Len(call.baselineEntries) = 2
    /\ fRecords # NULL
    /\ fDifferCount > 0

\* C26 and diffDirectories: the call is at its return statement after
\* get_directory failed, with a record in the store.
C26_WitnessDirectories ==
    /\ Unlisted /\ pc = "return"
    /\ call.op = "diffDirectories"
    /\ fRecords # NULL

====
